---- MODULE Spec2Model ----
(***************************************************************************)
(* A model of the sysHyper partitioning hypervisor core:                   *)
(*   - the GICv3 acknowledge / deactivate / list-register injection path    *)
(*     (src/src/device/gicv3.rs),                                           *)
(*   - the virtio trampoline between non-root CPUs and the root zone        *)
(*     (src/src/device/virtio.rs),                                          *)
(*   - PCI device assignment and ECAM trap emulation (src/src/pci/pci.rs).  *)
(*                                                                         *)
(* 64-bit list-register values are kept as records of their bit fields and  *)
(* 32-bit configuration words as pairs <<high half, low half>>, so that no  *)
(* value exceeds the range of the model checker's integers.                 *)
(***************************************************************************)
EXTENDS Integers, Sequences, FiniteSets, TLC

VARIABLES
    \* ---- GIC CPU interface of one physical CPU ----
    lr,         \* ICH_LR<n>_EL2, n in 0..lr_num-1
    iar,        \* the value the last read of ICC_IAR1_EL1 returned, <<>> before any
    ack,        \* per interrupt id: acknowledgements (non-spurious IAR reads)
    eoir,       \* per interrupt id: writes to ICC_EOIR1_EL1
    dir,        \* per interrupt id: writes to ICC_DIR_EL1
    hung,       \* the CPU spins in the `loop {}` of gicv3_handle_irq_el1
    nIrq,       \* invocations of gicv3_handle_irq_el1 so far
    active,     \* physical interrupt ids that are active at the CPU interface
    icc_ctlr_el1,    \* ICC_CTLR_EL1
    icc_pmr_el1,     \* ICC_PMR_EL1
    icc_igrpen1_el1, \* ICC_IGRPEN1_EL1
    ich_vmcr_el2,    \* ICH_VMCR_EL2, by fields
    ich_hcr_el2,     \* ICH_HCR_EL2
    nInit,      \* invocations of gicv3_cpu_init so far
    \* ---- virtio trampoline ----
    reqList,    \* TRAMPOLINE_REQ_LIST
    resultMap,  \* VIRTIO_RESULT_MAP: cpu -> <<>> (no entry) or <<value>>
    pc,         \* per non-root CPU: its position in mmio_virtio_handler
    access,     \* per non-root CPU: the access the guest issued (handler arguments)
    mmio,       \* per non-root CPU: the handler's MMIOAccess (mutated in place)
    isCfg,      \* per non-root CPU: the handler's local is_cfg
    suspended,  \* per non-root CPU: the PerCpu suspended flag
    sgiReq,     \* SGI_VIRTIO_REQ_ID pending on CPU 0
    sgiResume,  \* per non-root CPU: resume SGI pending
    sgiResult,  \* per non-root CPU: SGI_VIRTIO_RESULT_ID pending
    rootPc,     \* the root request handler's position
    rootCur,    \* the request the root handler is servicing, <<>> if none
    injected,   \* per non-root CPU: ids handle_virtio_result passed to inject_irq
    nReq,       \* requests issued so far, over all CPUs
    hist,       \* per non-root CPU: what the root did for its current cfg request
    mapLock,    \* the CPU that holds the VIRTIO_RESULT_MAP mutex, if any
    \* ---- PCI ----
    alloc_devs, \* per zone: PciRoot.alloc_devs
    endpoints,  \* per zone: PciRoot.endpoints (their BDFs)
    bridges,    \* per zone: PciRoot.bridges (their BDFs)
    mmioRegions,\* per zone: regions registered with mmio_region_register
    gpm,        \* per zone: regions identity-mapped into the stage-2 map
    bar_regions,\* per zone: PciRoot.bar_regions
    inited,     \* zones on which pci_init has run
    ecam,       \* physical configuration space: bdf -> register offset -> word
    pciReq,     \* the last access handed to mmio_pci_handler, <<>> before any
    pciRes,     \* its outcome: mmio.value after the handler and the HvResult
    \* ---- LoongArch CPU block and secondary bring-up ----
    archCpu,    \* an ArchCpu block
    initArgs,   \* the arguments of the last ArchCpu::init on it, <<>> before any
    ipi_enable, \* per core: the IPI enable register of the core's IPI block
    mailbox,    \* per core: mailbox 0 of the core
    ipi_action, \* per core: the SMP_BOOT_CPU action is raised
    startPc,    \* the position of the CPU running cpu_start
    startArgs,  \* the arguments of the last cpu_start, <<>> before any
    booted,     \* per core: the address it took from its mailbox on booting
    nStart      \* invocations of cpu_start so far

cpuifVars == <<icc_ctlr_el1, icc_pmr_el1, icc_igrpen1_el1, ich_vmcr_el2, ich_hcr_el2,
               nInit>>
gicVars == <<lr, iar, ack, eoir, dir, hung, nIrq, active, cpuifVars>>
virtioVars == <<reqList, resultMap, pc, access, mmio, isCfg, suspended, sgiReq,
                sgiResume, sgiResult, rootPc, rootCur, injected, nReq, hist,
                mapLock>>
pciVars == <<alloc_devs, endpoints, bridges, mmioRegions, gpm, bar_regions, inited,
             ecam, pciReq, pciRes>>
archVars == <<archCpu, initArgs, ipi_enable, mailbox, ipi_action, startPc, startArgs,
              booted, nStart>>
vars == <<gicVars, virtioVars, pciVars, archVars>>

(***************************************************************************)
(*                              GICv3                                      *)
(***************************************************************************)

\* ICH_VTR_EL2.ListRegs: the hardware implements ListRegs + 1 list registers.
VtrListRegs == 1
\* Invocations of the interrupt handler explored.
MaxIrqs == 3

\* The reserved hypervisor SGI (crate::hypercall::SGI_HV_ID).
SGI_HV_ID == 15

\* pub const ROOT_ZONE_IRQS: [u32; 1] = [0x76];
ROOT_ZONE_IRQS == {118}

\* Values ICC_IAR1_EL1 may return: SGIs 0 and 1, the hypervisor SGI, a PPI, an
\* SPI outside ROOT_ZONE_IRQS, the SPI in it, and the two special ids 1022
\* and 1023 (0x3fe, 0x3ff).
IarValues == {0, 1, SGI_HV_ID, 16, 32, 1022, 1023} \cup ROOT_ZONE_IRQS

\* let lr_num: usize = (vtr & 0xf) + 1;
lr_num == (VtrListRegs % 16) + 1

\* A list register by fields: bits[9:0] virt, bits[41:32] phys, bit 60 grp,
\* bit 61 hw, bits[63:62] state (0 invalid, 1 pending, 2 active).
ZeroLr == [virt |-> 0, phys |-> 0, grp |-> 0, hw |-> 0, state |-> 0]

\* ICH_ELRSR_EL2: bit i is set when list register i holds no interrupt.
elrsr(lrs) == {i \in DOMAIN lrs : lrs[i].state = 0}

\* fn pending_irq() -> Option<usize>, on the value read from ICC_IAR1_EL1.
pending_irq_off_by_one(v) == IF v > 1022 THEN <<>> ELSE <<v>>
pending_irq(v) == IF v >= 1022 THEN <<>> ELSE <<v>>

\* The duplicate test of inject_irq's scan at occupied slot i:
\*   let lr_val = read_lr(i) as usize;
\*   if (i & LR_VIRTIRQ_MASK) == irq_id { return; }
\* The index i, not lr_val, is masked and compared.
overlap(i, lr_val, irq_id) == (i % 1024) = irq_id

\* The scan `for i in 0..lr_num` of inject_irq from index i on, with the lr_idx
\* found so far: the final lr_idx (-1: none), or ret = TRUE on the early return.
RECURSIVE scan(_, _, _, _)
scan(lrs, i, lr_idx, irq_id) ==
    IF i >= lr_num THEN [ret |-> FALSE, lr_idx |-> lr_idx]
    ELSE IF i \in elrsr(lrs)
         THEN scan(lrs, i + 1, IF lr_idx = -1 THEN i ELSE lr_idx, irq_id)
         ELSE IF overlap(i, lrs[i], irq_id)
              THEN [ret |-> TRUE, lr_idx |-> lr_idx]
              ELSE scan(lrs, i + 1, lr_idx, irq_id)

\* The value inject_irq composes: irq_id | 1<<60 | 1<<62 | 1<<61 | irq_id<<32.
lr_value(irq_id) ==
    [virt |-> irq_id % 1024, phys |-> irq_id % 1024, grp |-> 1, hw |-> 1, state |-> 1]

\* fn inject_irq(irq_id: usize): the list registers after the call.
inject_irq(lrs, irq_id) ==
    LET s == scan(lrs, 0, -1, irq_id)
    IN  IF s.ret \/ s.lr_idx = -1 THEN lrs
        ELSE [lrs EXCEPT ![s.lr_idx] = lr_value(irq_id)]

\* fn deactivate_irq(irq_id: usize): the EOIR1 and DIR writes.
deactivate_eoir(e, irq_id) == [e EXCEPT ![irq_id] = @ + 1]
deactivate_dir(d, irq_id) == IF irq_id < 16 THEN [d EXCEPT ![irq_id] = @ + 1] ELSE d

\* ICC_CTLR_EL1.EOImode (bit 1): when set, a write to ICC_EOIR1_EL1 only drops
\* the running priority and the interrupt stays active until it is deactivated
\* by a write to ICC_DIR_EL1 or by the guest's end of a hardware-linked list
\* register; when clear, the write to ICC_EOIR1_EL1 deactivates as well.
eoi_mode(ctlr) == (ctlr \div 2) % 2

\* The active interrupts after the acknowledgement of irq_id followed by
\* deactivate_irq(irq_id).
after_deactivate(act, ctlr, irq_id) ==
    IF eoi_mode(ctlr) = 0 \/ irq_id < 16 THEN act \ {irq_id} ELSE act \cup {irq_id}

\* pub fn gicv3_handle_irq_el1(), ICC_IAR1_EL1 reading v; an interrupt that is
\* active is not signalled again.
gicv3_handle_irq_el1(v) ==
    /\ ~hung
    /\ nIrq < MaxIrqs
    /\ v \notin active
    /\ nIrq' = nIrq + 1
    /\ iar' = <<v>>
    /\ LET p == pending_irq(v)
       IN  IF p = <<>>
           THEN UNCHANGED <<lr, ack, eoir, dir, hung, active>>
           ELSE LET irq_id == p[1]
                IN  /\ ack' = [ack EXCEPT ![irq_id] = @ + 1]
                    /\ IF irq_id = SGI_HV_ID
                       THEN /\ hung' = TRUE       \* loop {}
                            /\ active' = active \cup {irq_id}
                            /\ UNCHANGED <<lr, eoir, dir>>
                       ELSE /\ active' = after_deactivate(active, icc_ctlr_el1, irq_id)
                            /\ eoir' = deactivate_eoir(eoir, irq_id)
                            /\ dir' = deactivate_dir(dir, irq_id)
                            /\ lr' = inject_irq(lr, irq_id)
                            /\ UNCHANGED hung
    /\ UNCHANGED <<cpuifVars, virtioVars, pciVars, archVars>>

\* The guest acknowledges the virtual interrupt held in list register i.
GuestAck(i) ==
    /\ lr[i].state = 1
    /\ lr' = [lr EXCEPT ![i].state = 2]
    /\ UNCHANGED <<iar, ack, eoir, dir, hung, nIrq, active, cpuifVars, virtioVars, pciVars, archVars>>

\* The guest ends the virtual interrupt: the list register becomes free and,
\* if it is hardware-linked, the physical interrupt in bits[41:32] is
\* deactivated.
GuestEoi(i) ==
    /\ lr[i].state = 2
    /\ lr' = [lr EXCEPT ![i].state = 0]
    /\ active' = IF lr[i].hw = 1 THEN active \ {lr[i].phys} ELSE active
    /\ UNCHANGED <<iar, ack, eoir, dir, hung, nIrq, cpuifVars, virtioVars, pciVars, archVars>>

\* Invocations of gicv3_cpu_init explored on the CPU.
MaxInits == 2

\* ICH_VMCR_EL2 by fields: bits[31:24] VPMR, and the low 24 bits.
\*   let mut vmcr = ((pmr & 0xff) << 24) | (1 << 1) | (1 << 9);
vmcr_value(pmr) == [vpmr |-> pmr % 256, low |-> 514]

\* pub fn gicv3_cpu_init(): each register is read, then written; the pmr that
\* goes into vmcr is the value read before 0xf0 was written.
gicv3_cpu_init ==
    /\ ~hung
    /\ nInit < MaxInits
    /\ nInit' = nInit + 1
    /\ LET pmr == icc_pmr_el1
       IN  /\ icc_ctlr_el1' = 2
           /\ icc_pmr_el1' = 240
           /\ icc_igrpen1_el1' = 1
           /\ ich_vmcr_el2' = vmcr_value(pmr)
           /\ ich_hcr_el2' = 1
    /\ UNCHANGED <<lr, iar, ack, eoir, dir, hung, nIrq, active, virtioVars, pciVars,
                   archVars>>

HandleIrq == \E v \in IarValues : gicv3_handle_irq_el1(v)
GuestAckLr == \E i \in 0 .. lr_num - 1 : GuestAck(i)
GuestEoiLr == \E i \in 0 .. lr_num - 1 : GuestEoi(i)

InitGic ==
    /\ lr = [i \in 0 .. lr_num - 1 |-> ZeroLr]
    /\ iar = <<>>
    /\ ack = [v \in IarValues |-> 0]
    /\ eoir = [v \in IarValues |-> 0]
    /\ dir = [v \in IarValues |-> 0]
    /\ hung = FALSE
    /\ nIrq = 0
    /\ active = {}

\* The CPU interface registers out of reset.
ResetVmcr == [vpmr |-> 0, low |-> 0]
InitCpuIf ==
    /\ icc_ctlr_el1 = 0
    /\ icc_pmr_el1 = 0
    /\ icc_igrpen1_el1 = 0
    /\ ich_vmcr_el2 = ResetVmcr
    /\ ich_hcr_el2 = 0
    /\ nInit = 0

\* The CPU interface registers as earlier firmware or an earlier boot stage may
\* have left them.
PmrValues == {0, 8, 16, 128, 239, 240, 248, 255}
AnyCpuIf ==
    /\ icc_ctlr_el1 \in {0, 2}
    /\ icc_pmr_el1 \in PmrValues
    /\ icc_igrpen1_el1 \in {0, 1}
    /\ ich_vmcr_el2 \in {ResetVmcr, [vpmr |-> 240, low |-> 514]}
    /\ ich_hcr_el2 \in {0, 1}
    /\ nInit = 0

NextGic == HandleIrq \/ GuestAckLr \/ GuestEoiLr
NextCpuIf == gicv3_cpu_init

(***************************************************************************)
(*                          Virtio trampoline                              *)
(***************************************************************************)

\* pub const ROOT_ZONE_CPUS: u64 = (1 << 0) | (1 << 1) | (1 << 2) | (1 << 3);
ROOT_ZONE_CPUS == {0, 1, 2, 3}
\* send_event(0, SGI_VIRTIO_REQ_ID): the CPU the request SGI is sent to.
VirtioReqTarget == 0
\* Physical CPUs that run non-root zones.
NonRootCpus == {4, 5}
\* Requests the non-root CPUs issue in all.
MaxReqs == 3

\* const QUEUE_NOTIFY: usize = 0x50;
QUEUE_NOTIFY == 80
\* The guest-physical base of the virtio device's MMIO window.
VirtioBases == {4096}

\* The accesses a guest issues: MMIOAccess { address, size, is_write, value },
\* address relative to the device base: queue-notify, or the register at 0x70.
GuestAccesses ==
    {[address |-> a, size |-> 4, is_write |-> w, value |-> IF w THEN 5 ELSE 0] :
        a \in {QUEUE_NOTIFY, 112}, w \in BOOLEAN}

\* What the root zone's backend answers: a value for a cfg request, a virtual
\* interrupt id for a notify request.
CfgResults == {7, 9}
VirqResults == {40}

\* this_cell_id() on a non-root CPU.
this_cell_id(c) == 1

\* let is_cfg = mmio.address != QUEUE_NOTIFY;
is_cfg_eq(address) == address = QUEUE_NOTIFY
is_cfg(address) == address # QUEUE_NOTIFY

\* req_list.push_back(req) on the LinkedList TRAMPOLINE_REQ_LIST.
push_front(list, req) == <<req>> \o list
push_back(list, req) == Append(list, req)

\* VirtioReq::new(src_cell, src_cpu, is_cfg, mmio)
VirtioReq(src_cell, src_cpu, cfg, m) ==
    [src_cell |-> src_cell, src_cpu |-> src_cpu, is_cfg |-> cfg, mmio |-> m]

\* `if is_cfg { suspend_self(); ... }`: whether the handler blocks.
blocks_never(cfg) == FALSE
blocks_always(cfg) == TRUE
blocks(cfg) == cfg

\* `if !mmio.is_write { mmio.value = *map.get(&this_cpu_id()).unwrap(); }`:
\* whether the woken handler takes the result from VIRTIO_RESULT_MAP.
takes_result_on_write(is_write) == is_write
takes_result(is_write) == ~is_write

\* map.get(&this_cpu_id()) on the BTreeMap VIRTIO_RESULT_MAP.
map_get_root(map, cpu) == IF 0 \in DOMAIN map THEN map[0] ELSE <<>>
map_get(map, cpu) == IF cpu \in DOMAIN map THEN map[cpu] ELSE <<>>

NoHist == [wrote |-> <<>>, resumed |-> FALSE]
NoAccess == [address |-> 0, size |-> 4, is_write |-> FALSE, value |-> 0]

\* mmio_virtio_handler, entry to `drop(req_list)`: classify, rebase, enqueue.
VirtioPush(c, a, base) ==
    /\ pc[c] = "guest"
    /\ nReq < MaxReqs
    /\ nReq' = nReq + 1
    /\ access' = [access EXCEPT ![c] = a]
    /\ isCfg' = [isCfg EXCEPT ![c] = is_cfg(a.address)]
    /\ mmio' = [mmio EXCEPT ![c] = [a EXCEPT !.address = @ + base]]
    /\ reqList' = push_back(reqList,
                            VirtioReq(this_cell_id(c), c, is_cfg(a.address), mmio'[c]))
    /\ hist' = [hist EXCEPT ![c] = NoHist]
    /\ pc' = [pc EXCEPT ![c] = "pushed"]
    /\ UNCHANGED <<resultMap, suspended, sgiReq, sgiResume, sgiResult, rootPc,
                   rootCur, injected, mapLock,
                   gicVars, pciVars, archVars>>

\* send_event(cpu_id, SGI_VIRTIO_REQ_ID): the SGI becomes pending on cpu_id;
\* `pending` is its pending bit on CPU 0, where the root's handler takes it.
send_event_lost(cpu_id, pending) == pending
send_event(cpu_id, pending) == IF cpu_id = 0 THEN TRUE ELSE pending

\* send_event(0, SGI_VIRTIO_REQ_ID), then the branch on is_cfg.
VirtioSendEvent(c) ==
    /\ pc[c] = "pushed"
    /\ sgiReq' = send_event(VirtioReqTarget, sgiReq)
    /\ pc' = [pc EXCEPT ![c] = IF blocks(isCfg[c]) THEN "suspend" ELSE "ret"]
    /\ UNCHANGED <<reqList, resultMap, access, mmio, isCfg, suspended, sgiResume,
                   sgiResult, rootPc, rootCur, injected, nReq, hist, mapLock,
                   gicVars, pciVars, archVars>>

\* suspend_self(): set the suspended flag and wait.
suspend_self(c) ==
    /\ pc[c] = "suspend"
    /\ suspended' = [suspended EXCEPT ![c] = TRUE]
    /\ pc' = [pc EXCEPT ![c] = "suspended"]
    /\ UNCHANGED <<reqList, resultMap, access, mmio, isCfg, sgiReq, sgiResume,
                   sgiResult, rootPc, rootCur, injected, nReq, hist, mapLock,
                   gicVars, pciVars, archVars>>

\* suspend_self() returns: the resume SGI has arrived.
Wake(c) ==
    /\ pc[c] = "suspended"
    /\ sgiResume[c]
    /\ sgiResume' = [sgiResume EXCEPT ![c] = FALSE]
    /\ suspended' = [suspended EXCEPT ![c] = FALSE]
    /\ pc' = [pc EXCEPT ![c] = "woke"]
    /\ UNCHANGED <<reqList, resultMap, access, mmio, isCfg, sgiReq, sgiResult,
                   rootPc, rootCur, injected, nReq, hist, mapLock,
                   gicVars, pciVars, archVars>>

\* mmio_virtio_handler after suspend_self: the result lookup (unwrap panics on
\* a missing entry; the entry is not removed).
VirtioTakeResult(c) ==
    /\ pc[c] = "woke"
    /\ IF takes_result(mmio[c].is_write)
       THEN /\ mapLock = <<>>
            /\ IF map_get(resultMap, c) = <<>>
               THEN /\ pc' = [pc EXCEPT ![c] = "panic"]
                    /\ UNCHANGED mmio
               ELSE /\ mmio' = [mmio EXCEPT ![c].value = map_get(resultMap, c)[1]]
                    /\ pc' = [pc EXCEPT ![c] = "ret"]
       ELSE /\ pc' = [pc EXCEPT ![c] = "ret"]
            /\ UNCHANGED mmio
    /\ UNCHANGED <<reqList, resultMap, access, isCfg, suspended, sgiReq, sgiResume,
                   sgiResult, rootPc, rootCur, injected, nReq, hist, mapLock,
                   gicVars, pciVars, archVars>>

\* mmio_virtio_handler returns Ok(()) and the CPU re-enters its guest; the
\* handler's locals are gone.
VirtioReturn(c) ==
    /\ pc[c] = "ret"
    /\ pc' = [pc EXCEPT ![c] = "guest"]
    /\ access' = [access EXCEPT ![c] = NoAccess]
    /\ mmio' = [mmio EXCEPT ![c] = NoAccess]
    /\ isCfg' = [isCfg EXCEPT ![c] = FALSE]
    /\ hist' = [hist EXCEPT ![c] = NoHist]
    /\ UNCHANGED <<reqList, resultMap, suspended, sgiReq, sgiResume, sgiResult,
                   rootPc, rootCur, injected, nReq, mapLock,
                   gicVars, pciVars, archVars>>

\* pub fn handle_virtio_result(), run by a non-root CPU on SGI_VIRTIO_RESULT_ID:
\* `let map = VIRTIO_RESULT_MAP.lock(); let irq_id = map.get(..).unwrap();`
\* (the CPU spins while another CPU holds the mutex; unwrap panics on a
\* missing entry, with the guard alive).
handle_virtio_result(c) ==
    /\ pc[c] = "guest"
    /\ sgiResult[c]
    /\ mapLock = <<>>
    /\ sgiResult' = [sgiResult EXCEPT ![c] = FALSE]
    /\ mapLock' = <<c>>
    /\ pc' = [pc EXCEPT ![c] = IF map_get(resultMap, c) = <<>> THEN "panic" ELSE "inject"]
    /\ UNCHANGED <<reqList, resultMap, access, mmio, isCfg, suspended, sgiReq,
                   sgiResume, rootPc, rootCur, injected, nReq, hist,
                   gicVars, pciVars, archVars>>

\* handle_virtio_result: `inject_irq(*irq_id as _, false);`, then the guard
\* `map` goes out of scope at the end of the function.
ResultInject(c) ==
    /\ pc[c] = "inject"
    /\ injected' = [injected EXCEPT ![c] = Append(@, map_get(resultMap, c)[1])]
    /\ mapLock' = <<>>
    /\ pc' = [pc EXCEPT ![c] = "guest"]
    /\ UNCHANGED <<reqList, resultMap, access, mmio, isCfg, suspended, sgiReq,
                   sgiResume, sgiResult, rootPc, rootCur, nReq, hist,
                   gicVars, pciVars, archVars>>

\* Root request handler: CPU 0 takes SGI_VIRTIO_REQ_ID and starts draining.
RootEntry ==
    /\ rootPc = "idle"
    /\ sgiReq
    /\ sgiReq' = FALSE
    /\ rootPc' = "drain"
    /\ UNCHANGED <<reqList, resultMap, pc, access, mmio, isCfg, suspended,
                   sgiResume, sgiResult, rootCur, injected, nReq, hist, mapLock,
                   gicVars, pciVars, archVars>>

\* Root request handler: take the oldest request off the list.
RootPop ==
    /\ rootPc = "drain"
    /\ reqList # <<>>
    /\ rootCur' = <<Head(reqList)>>
    /\ reqList' = Tail(reqList)
    /\ rootPc' = "service"
    /\ UNCHANGED <<resultMap, pc, access, mmio, isCfg, suspended, sgiReq,
                   sgiResume, sgiResult, injected, nReq, hist, mapLock,
                   gicVars, pciVars, archVars>>

\* Root request handler: the list is drained.
RootExit ==
    /\ rootPc = "drain"
    /\ reqList = <<>>
    /\ rootPc' = "idle"
    /\ UNCHANGED <<reqList, resultMap, pc, access, mmio, isCfg, suspended, sgiReq,
                   sgiResume, sgiResult, rootCur, injected, nReq, hist, mapLock,
                   gicVars, pciVars, archVars>>

\* Root request handler: store the backend's result v into VIRTIO_RESULT_MAP.
RootWriteResult(v) ==
    /\ rootPc = "service"
    /\ mapLock = <<>>
    /\ LET r == rootCur[1]
       IN  /\ v \in (IF r.is_cfg THEN CfgResults ELSE VirqResults)
           /\ resultMap' = [resultMap EXCEPT ![r.src_cpu] = <<v>>]
           /\ hist' = IF r.is_cfg
                      THEN [hist EXCEPT ![r.src_cpu].wrote = <<v>>]
                      ELSE hist
    /\ rootPc' = "send"
    /\ UNCHANGED <<reqList, pc, access, mmio, isCfg, suspended, sgiReq, sgiResume,
                   sgiResult, rootCur, injected, nReq, mapLock,
                   gicVars, pciVars, archVars>>

\* Root request handler: resume SGI for a cfg request, result SGI for a notify.
RootSendSgi ==
    /\ rootPc = "send"
    /\ LET r == rootCur[1]
       IN  IF r.is_cfg
           THEN /\ sgiResume' = [sgiResume EXCEPT ![r.src_cpu] = TRUE]
                /\ hist' = [hist EXCEPT ![r.src_cpu].resumed = TRUE]
                /\ UNCHANGED sgiResult
           ELSE /\ sgiResult' = [sgiResult EXCEPT ![r.src_cpu] = TRUE]
                /\ UNCHANGED <<sgiResume, hist>>
    /\ rootCur' = <<>>
    /\ rootPc' = "drain"
    /\ UNCHANGED <<reqList, resultMap, pc, access, mmio, isCfg, suspended, sgiReq,
                   injected, nReq, mapLock,
                   gicVars, pciVars, archVars>>

NonRootPush == \E c \in NonRootCpus, a \in GuestAccesses, b \in VirtioBases :
                   VirtioPush(c, a, b)
NonRootSendEvent == \E c \in NonRootCpus : VirtioSendEvent(c)
NonRootSuspend == \E c \in NonRootCpus : suspend_self(c)
NonRootWake == \E c \in NonRootCpus : Wake(c)
NonRootTakeResult == \E c \in NonRootCpus : VirtioTakeResult(c)
NonRootReturn == \E c \in NonRootCpus : VirtioReturn(c)
NonRootResultSgi == \E c \in NonRootCpus : handle_virtio_result(c)
NonRootInject == \E c \in NonRootCpus : ResultInject(c)
RootWrite == \E v \in CfgResults \cup VirqResults : RootWriteResult(v)

InitVirtio ==
    /\ reqList = <<>>
    /\ resultMap = [c \in NonRootCpus |-> <<>>]
    /\ pc = [c \in NonRootCpus |-> "guest"]
    /\ access = [c \in NonRootCpus |-> NoAccess]
    /\ mmio = [c \in NonRootCpus |-> NoAccess]
    /\ isCfg = [c \in NonRootCpus |-> FALSE]
    /\ suspended = [c \in NonRootCpus |-> FALSE]
    /\ sgiReq = FALSE
    /\ sgiResume = [c \in NonRootCpus |-> FALSE]
    /\ sgiResult = [c \in NonRootCpus |-> FALSE]
    /\ rootPc = "idle"
    /\ rootCur = <<>>
    /\ injected = [c \in NonRootCpus |-> <<>>]
    /\ nReq = 0
    /\ hist = [c \in NonRootCpus |-> NoHist]
    /\ mapLock = <<>>

NextVirtio ==
    \/ NonRootPush \/ NonRootSendEvent \/ NonRootSuspend \/ NonRootWake
    \/ NonRootTakeResult \/ NonRootReturn \/ NonRootResultSgi \/ NonRootInject
    \/ RootEntry \/ RootPop \/ RootExit \/ RootWrite \/ RootSendSgi

\* The guest's write accesses: a queue notify and a cfg write.
WriteAccesses == {a \in GuestAccesses : a.is_write}
NonRootPushWrite == \E c \in NonRootCpus, a \in WriteAccesses, b \in VirtioBases :
                        VirtioPush(c, a, b)

\* The trampoline driven by write accesses only.
NextVirtioWrites ==
    \/ NonRootPushWrite \/ NonRootSendEvent \/ NonRootSuspend \/ NonRootWake
    \/ NonRootTakeResult \/ NonRootReturn \/ NonRootResultSgi \/ NonRootInject
    \/ RootEntry \/ RootPop \/ RootExit \/ RootWrite \/ RootSendSgi

(***************************************************************************)
(*                                PCI                                      *)
(***************************************************************************)

\* Zone ids of the static configuration; zone 0 is the root zone.
Zones == {0, 1, 2}
\* BDFs of the bus: the host bridge 0, and slots 1<<3, 2<<3 and 3<<3.
Bdfs == {0, 8, 16, 24}
\* let offsets: [usize; NUM_BAR_REGS_TYPE0] = [0x10, 0x14, 0x18, 0x1c, 0x20, 0x24];
ep_offsets == <<16, 20, 24, 28, 32, 36>>
\* let offsets: [usize; NUM_BAR_REGS_TYPE1] = [0x10, 0x14];
bridge_offsets == <<16, 20>>
\* Configuration registers modelled per BDF: the vendor/device word at 0x0 and
\* the registers at 0x10..0x24; a guest accesses the word at 0x0 and BAR0.
Regs == {0} \cup {ep_offsets[k] : k \in DOMAIN ep_offsets}
GuestRegs == {0, 16}

\* 32-bit words as <<high half, low half>>.
AllOnes == <<65535, 65535>>
\* super::PHANTOM_DEV_HEADER
PHANTOM_DEV_HEADER == <<30583, 30583>>
\* Words a guest writes to configuration registers: 0 and 0x1000_0100.
BarWords == {<<0, 0>>, <<4096, 256>>}

\* The zone configuration's PCI window descriptor (HvPciConfig): ECAM, I/O,
\* 32-bit memory and 64-bit memory windows, disjoint, as base and size.
pci_config ==
    [ecam_base |-> 1056964608, ecam_size |-> 16777216,     \* 0x3f00_0000, 0x100_0000
     io_base |-> 1056898048, io_size |-> 65536,            \* 0x3eff_0000, 0x1_0000
     mem32_base |-> 268435456, mem32_size |-> 788463616,   \* 0x1000_0000, 0x2eff_0000
     mem64_base |-> 1073741824, mem64_size |-> 268435456]  \* 0x4000_0000, 0x1000_0000

\* The alloc_pci_devs lists (with num_pci_devs their length) of zone configs.
DevLists == {<<0>>, <<0, 8>>, <<0, 16>>, <<8, 24>>}

\* Physical slots: an empty slot reads all ones everywhere (header type 0xff);
\* a populated slot holds a vendor/device word, a header type (0 endpoint,
\* 1 bridge) and, per register at 0x10..0x24, the number of bytes a 32-bit
\* memory BAR there decodes (0: no BAR, the register reads zero) and the value
\* it holds.
EmptySlot ==
    [regs |-> [r \in Regs |-> AllOnes], header_type |-> 255,
     bar_size |-> [r \in Regs |-> 0]]
Device(id, t, bar_size, bar) ==
    [regs |-> [r \in Regs |-> IF r = 0 THEN id ELSE bar[r]], header_type |-> t,
     bar_size |-> bar_size]
NoBars == [r \in Regs |-> 0]
NoBarValues == [r \in Regs |-> <<0, 0>>]
\* The host bridge at BDF 0 (0x1b36_0008), without BARs.
HostBridge == Device(<<6966, 8>>, 0, NoBars, NoBarValues)
\* The bus at boot: the host bridge; an endpoint with a 256-byte BAR0 that
\* firmware placed at 0x1000_0100 and a 4 KiB BAR1 at 0x1000_2000; a bridge
\* with a 4 KiB BAR0 not yet placed (both 0x1234_5678); and an empty slot.
BootEcam ==
    [b \in Bdfs |->
        CASE b = 0 -> HostBridge
          [] b = 8 -> Device(<<4660, 22136>>, 0,
                             [NoBars EXCEPT ![16] = 256, ![20] = 4096],
                             [NoBarValues EXCEPT ![16] = <<4096, 256>>,
                                                 ![20] = <<4096, 8192>>])
          [] b = 16 -> Device(<<4660, 22136>>, 1,
                              [NoBars EXCEPT ![16] = 4096], NoBarValues)
          [] OTHER -> EmptySlot]

SeqToSet(q) == {q[i] : i \in DOMAIN q}

\* pub fn is_assigned_device(&self, bdf: usize) -> bool
is_assigned_device(devs, bdf) == bdf \in SeqToSet(devs)

\* The classification loop of virtual_pci_device_init over alloc_devs from
\* index i on: the BDFs pushed to endpoints (t = 0) or bridges (t = 1).
RECURSIVE classify(_, _, _)
classify(devs, i, t) ==
    IF i > Len(devs) THEN <<>>
    ELSE LET bdf == devs[i]
         IN  IF bdf # 0 /\ (ecam[bdf].header_type % 128) = t
             THEN <<bdf>> \o classify(devs, i + 1, t)
             ELSE classify(devs, i + 1, t)

\* What a BAR register that decodes size bytes (a power of two from 16 to
\* 0x10000) keeps of a stored word: the address bits above the size; the low
\* bits, the type bits included, read zero.
bar_store(size, value) ==
    IF size = 0 THEN <<0, 0>> ELSE <<value[1], value[2] - (value[2] % size)>>

\* mmio_perform_access(base, mmio) on the physical ECAM: a load returns the
\* register; a store reaches a populated slot's BAR (the vendor/device word
\* is read-only, an empty slot drops stores).
perform_read(cfg, bdf, reg) == cfg[bdf].regs[reg]
perform_write(cfg, bdf, reg, value) ==
    IF cfg[bdf] = EmptySlot \/ reg = 0 THEN cfg
    ELSE [cfg EXCEPT ![bdf].regs[reg] = bar_store(cfg[bdf].bar_size[reg], value)]

\* A 32-bit word below 0x8000_0000 as a number.
ToAddr(w) == w[1] * 65536 + w[2]

\* A guest-physical range: MemoryRegion / BarRegion / an MMIO trap region.
Region(start, size) == [start |-> start, size |-> size]
overlaps(r, q) == r.start < q.start + q.size /\ q.start < r.start + r.size

\* bars_init(bar_id, origin_val, new_val) followed by get_regions(): the
\* region a 32-bit memory BAR yields, start = origin_val & ~0xF and
\* size = (~(new_val & ~0xF)) + 1; a BAR whose mask new_val reads zero is not
\* implemented and yields none.
bar_region(origin_val, new_val) ==
    IF new_val = <<0, 0>> THEN <<>>
    ELSE <<Region(ToAddr(<<origin_val[1], origin_val[2] - (origin_val[2] % 16)>>),
                  (65535 - new_val[1]) * 65536
                      + (65535 - (new_val[2] - (new_val[2] % 16))) + 1)>>

\* `*reg_ptr = origin_val;`: the value the pass writes back to the slot.
restore_mask(origin_val, new_val) == new_val
restore_value(origin_val, new_val) == origin_val

\* A configuration access of the sizing pass.
CfgRead(bdf, reg) == [op |-> "read", bdf |-> bdf, reg |-> reg, value |-> <<0, 0>>]
CfgWrite(bdf, reg, value) == [op |-> "write", bdf |-> bdf, reg |-> reg, value |-> value]

\* The loops of ep_bars_init / bridge_bars_init from device devs[i], slot
\* offsets[j] on: read origin_val, write 0xffffffff, read new_val, bars_init,
\* write origin_val back.  Yields the configuration space afterwards, the
\* regions decoded and the accesses made, in order.
RECURSIVE bars_init_pass(_, _, _, _, _)
bars_init_pass(cfg, devs, offsets, i, j) ==
    IF i > Len(devs) THEN [cfg |-> cfg, regions |-> <<>>, accesses |-> <<>>]
    ELSE IF j > Len(offsets) THEN bars_init_pass(cfg, devs, offsets, i + 1, 1)
    ELSE LET bdf == devs[i]
             reg == offsets[j]
             origin_val == perform_read(cfg, bdf, reg)
             sized == perform_write(cfg, bdf, reg, AllOnes)
             new_val == perform_read(sized, bdf, reg)
             back == restore_value(origin_val, new_val)
             restored == perform_write(sized, bdf, reg, back)
             rest == bars_init_pass(restored, devs, offsets, i, j + 1)
         IN  [cfg |-> rest.cfg,
              regions |-> bar_region(origin_val, new_val) \o rest.regions,
              accesses |-> <<CfgRead(bdf, reg), CfgWrite(bdf, reg, AllOnes),
                             CfgRead(bdf, reg), CfgWrite(bdf, reg, back)>>
                           \o rest.accesses]

ep_bars_init(cfg, eps) == bars_init_pass(cfg, eps, ep_offsets, 1, 1)
bridge_bars_init(cfg, brs) == bars_init_pass(cfg, brs, bridge_offsets, 1, 1)

\* fn get_bars_regions(&mut self): the regions pushed to bar_regions, those of
\* the endpoints first:  if region.size < 0x1000 { region.size = 0x1000; }
get_bars_regions(regions) ==
    [i \in DOMAIN regions |->
        IF regions[i].size < 4096 THEN [regions[i] EXCEPT !.size = 4096]
        ELSE regions[i]]

\* pub fn bars_register(&mut self)
bars_register(cfg, eps, brs) ==
    LET e == ep_bars_init(cfg, eps)
        b == bridge_bars_init(e.cfg, brs)
    IN  [cfg |-> b.cfg, regions |-> get_bars_regions(e.regions \o b.regions),
         accesses |-> e.accesses \o b.accesses]

\* self.gpm.insert(region).ok(): the region is added unless it overlaps one
\* already in the set; the error is discarded.
gpm_insert(set, r) == IF \E q \in set : overlaps(r, q) THEN set ELSE set \cup {r}

\* fn pci_bars_register(&mut self): the loop over bar_regions from index i on.
RECURSIVE pci_bars_register(_, _, _)
pci_bars_register(set, regions, i) ==
    IF i > Len(regions) THEN set
    ELSE pci_bars_register(gpm_insert(set, regions[i]), regions, i + 1)

\* The four windows of pci_config as regions.
ecam_window == Region(pci_config.ecam_base, pci_config.ecam_size)
io_window == Region(pci_config.io_base, pci_config.io_size)
mem32_window == Region(pci_config.mem32_base, pci_config.mem32_size)
mem64_window == Region(pci_config.mem64_base, pci_config.mem64_size)

\* pub fn pci_init(&mut self, pci_config, num_pci_devs, alloc_pci_devs) on zone z
\* with alloc_pci_devs[0..num_pci_devs] = devs.
pci_init(z, devs) ==
    /\ z \notin inited
    /\ inited' = inited \cup {z}
    /\ alloc_devs' = [alloc_devs EXCEPT ![z] = @ \o devs]
    /\ IF z = 0
       THEN \* root_pci_init
            /\ mmioRegions' = [mmioRegions EXCEPT ![z] = @ \cup {ecam_window}]
            /\ gpm' = [gpm EXCEPT
                          ![z] = gpm_insert(gpm_insert(gpm_insert(@, io_window),
                                                       mem32_window),
                                            mem64_window)]
            /\ UNCHANGED <<endpoints, bridges, bar_regions, ecam>>
       ELSE \* virtual_pci_mmio_init, virtual_pci_device_init
            /\ mmioRegions' = [mmioRegions EXCEPT
                                  ![z] = @ \cup {ecam_window, io_window,
                                                 mem32_window, mem64_window}]
            /\ endpoints' = [endpoints EXCEPT
                                  ![z] = @ \o classify(alloc_devs'[z], 1, 0)]
            /\ bridges' = [bridges EXCEPT
                                  ![z] = @ \o classify(alloc_devs'[z], 1, 1)]
            /\ LET sized == bars_register(ecam, endpoints'[z], bridges'[z])
               IN  /\ ecam' = sized.cfg
                   /\ bar_regions' = [bar_regions EXCEPT ![z] = @ \o sized.regions]
                   /\ gpm' = [gpm EXCEPT
                                 ![z] = pci_bars_register(@, bar_regions'[z], 1)]
    /\ UNCHANGED <<pciReq, pciRes, gicVars, virtioVars, archVars>>

\* The value mmio_pci_handler gives an unassigned BDF's offset-0 access, from
\* the physical header word header_val.
unassigned_header_passthrough(header_val) == header_val
unassigned_header(header_val) ==
    IF header_val = AllOnes THEN AllOnes ELSE PHANTOM_DEV_HEADER

\* pub fn mmio_pci_handler(mmio, base) run for zone z on the ECAM window;
\* m.address is the offset into the window.
mmio_pci_handler(z, m) ==
    LET reg_addr == m.address % 4096
        bdf == m.address \div 4096
        assigned == is_assigned_device(alloc_devs[z], bdf)
        passthrough == assigned \/ reg_addr # 0
    IN  /\ z \in inited
        /\ pciReq' = <<[zone |-> z, mmio |-> m]>>
        /\ ecam' = IF passthrough /\ m.is_write
                   THEN perform_write(ecam, bdf, reg_addr, m.value)
                   ELSE ecam
        /\ pciRes' = <<[value |-> IF passthrough
                                  THEN IF m.is_write THEN m.value
                                       ELSE perform_read(ecam, bdf, reg_addr)
                                  ELSE unassigned_header(perform_read(ecam, bdf, 0)),
                        ret |-> "Ok"]>>
        /\ UNCHANGED <<alloc_devs, endpoints, bridges, mmioRegions, gpm, bar_regions,
                       inited, gicVars, virtioVars, archVars>>

\* The ECAM accesses a guest issues: 4-byte loads and stores.
EcamAccesses ==
    {[address |-> b * 4096 + r, size |-> 4, is_write |-> FALSE, value |-> <<0, 0>>] :
        b \in Bdfs, r \in GuestRegs}
    \cup
    {[address |-> b * 4096 + r, size |-> 4, is_write |-> TRUE, value |-> v] :
        b \in Bdfs, r \in GuestRegs, v \in BarWords}

PciInit == \E z \in Zones, devs \in DevLists : pci_init(z, devs)
PciMmio == \E z \in Zones, m \in EcamAccesses : mmio_pci_handler(z, m)

InitPciRoots ==
    /\ alloc_devs = [z \in Zones |-> <<>>]
    /\ endpoints = [z \in Zones |-> <<>>]
    /\ bridges = [z \in Zones |-> <<>>]
    /\ mmioRegions = [z \in Zones |-> {}]
    /\ gpm = [z \in Zones |-> {}]
    /\ bar_regions = [z \in Zones |-> <<>>]
    /\ inited = {}
    /\ pciReq = <<>>
    /\ pciRes = <<>>
InitPci == InitPciRoots /\ ecam = BootEcam

\* The bus with BAR0 of the endpoint and of the bridge as firmware or the root
\* zone may have programmed them before a zone is created.
ProgrammedEcams ==
    {[BootEcam EXCEPT ![8].regs[16] = bar_store(BootEcam[8].bar_size[16], a),
                      ![16].regs[16] = bar_store(BootEcam[16].bar_size[16], b)] :
        a \in BarWords, b \in BarWords}
AnyPci == InitPciRoots /\ ecam \in ProgrammedEcams

NextPci == PciInit \/ PciMmio

(***************************************************************************)
(*                 LoongArch CPU block and CPU bring-up                    *)
(***************************************************************************)

\* crate::consts::PER_CPU_ARRAY_PTR and PER_CPU_SIZE.
PER_CPU_ARRAY_PTR == 65536
PER_CPU_SIZE == 4096

\* The general-purpose registers r0..r31 of the save area.
GprIds == 0 .. 31

\* ArchCpu::new(cpuid)
ArchCpu_new(cpuid) ==
    [r |-> [i \in GprIds |-> 0], sepc |-> 0, stack_top |-> 0, cpuid |-> cpuid,
     power_on |-> FALSE]

\* pub fn stack_top(&self) -> VirtAddr
stack_top(cpu) == PER_CPU_ARRAY_PTR + (cpu.cpuid + 1) * PER_CPU_SIZE - 8

\* The states a CPU block may be in before init: fresh, or used by a guest
\* that ran on it.
PriorBlocks ==
    {ArchCpu_new(c) : c \in {0, 1}}
    \cup
    {[r |-> [i \in GprIds |-> IF i \in d THEN 7 ELSE 0], sepc |-> 12288,
      stack_top |-> 64, cpuid |-> c, power_on |-> on] :
        d \in {{4}, {1, 31}}, c \in {0, 1}, on \in BOOLEAN}

\* The arguments of ArchCpu::init.
InitEntries == {36864, 40960}
InitDtbs == {0, 524288}

\* pub fn init(&mut self, entry: usize, cpu_id: usize, dtb: usize): the body is
\* a println! only; no field of the block is assigned.
ArchCpu_init(cpu, entry, cpu_id, dtb) == cpu

ArchCpuInit(entry, cpu_id, dtb) ==
    /\ archCpu' = ArchCpu_init(archCpu, entry, cpu_id, dtb)
    /\ initArgs' = <<[entry |-> entry, cpu_id |-> cpu_id, dtb |-> dtb]>>
    /\ UNCHANGED <<ipi_enable, mailbox, ipi_action, startPc, startArgs, booted, nStart,
                   gicVars, virtioVars, pciVars>>

\* Invocations of cpu_start explored.
MaxStarts == 2

\* Core ids cpu_start is called with; cores 1..3 have an IPI block.
CoreIds == 0 .. 4
StartAddrs == {36864, 40960}
\* super::ipi::SMP_BOOT_CPU
SMP_BOOT_CPU == 1

\* The `match cpuid` of cpu_start: the IPI block chosen, none for `_`.
ipi_block_any(cpuid) == <<cpuid>>
ipi_block(cpuid) == IF cpuid \in {1, 2, 3} THEN <<cpuid>> ELSE <<>>

\* cpu_start up to ipi.ipi_enable.write(IpiEnable::IPIENABLE.val(0xffffffff)),
\* or to the `return` of the `_` arm.
cpu_start(cpuid, start_addr) ==
    /\ startPc = "idle"
    /\ nStart < MaxStarts
    /\ nStart' = nStart + 1
    /\ startArgs' = <<[cpuid |-> cpuid, start_addr |-> start_addr]>>
    /\ IF ipi_block(cpuid) = <<>>
       THEN UNCHANGED <<ipi_enable, startPc>>
       ELSE /\ ipi_enable' = [ipi_enable EXCEPT ![ipi_block(cpuid)[1]] = AllOnes]
            /\ startPc' = "mail"
    /\ UNCHANGED <<archCpu, initArgs, mailbox, ipi_action, booted,
                   gicVars, virtioVars, pciVars>>

\* mail_send(entry_addr, cpuid, 0)
mail_send(mb, entry_addr, cpuid) == [mb EXCEPT ![cpuid] = entry_addr]
CpuStartMail ==
    /\ startPc = "mail"
    /\ mailbox' = mail_send(mailbox, startArgs[1].start_addr, startArgs[1].cpuid)
    /\ startPc' = "action"
    /\ UNCHANGED <<archCpu, initArgs, ipi_enable, ipi_action, startArgs, booted, nStart,
                   gicVars, virtioVars, pciVars>>

\* ipi_write_action(cpuid, SMP_BOOT_CPU)
ipi_write_action(act, cpuid, action) == [act EXCEPT ![cpuid] = @ \cup {action}]
CpuStartAction ==
    /\ startPc = "action"
    /\ ipi_action' = ipi_write_action(ipi_action, startArgs[1].cpuid, SMP_BOOT_CPU)
    /\ startPc' = "idle"
    /\ UNCHANGED <<archCpu, initArgs, ipi_enable, mailbox, startArgs, booted, nStart,
                   gicVars, virtioVars, pciVars>>

\* A core whose IPI block has the boot action raised and enabled takes the
\* entry address from its mailbox and clears the action.
CoreBoot(c) ==
    /\ SMP_BOOT_CPU \in ipi_action[c]
    /\ ipi_enable[c] = AllOnes
    /\ booted' = [booted EXCEPT ![c] = <<mailbox[c]>>]
    /\ ipi_action' = [ipi_action EXCEPT ![c] = @ \ {SMP_BOOT_CPU}]
    /\ UNCHANGED <<archCpu, initArgs, ipi_enable, mailbox, startPc, startArgs, nStart,
                   gicVars, virtioVars, pciVars>>

ArchInit == \E e \in InitEntries, c \in {0, 1}, d \in InitDtbs : ArchCpuInit(e, c, d)
CpuStart == \E c \in CoreIds, a \in StartAddrs : cpu_start(c, a)
CoreBoots == \E c \in CoreIds : CoreBoot(c)

InitIpi ==
    /\ initArgs = <<>>
    /\ ipi_enable = [c \in CoreIds |-> <<0, 0>>]
    /\ mailbox = [c \in CoreIds |-> 0]
    /\ ipi_action = [c \in CoreIds |-> {}]
    /\ startPc = "idle"
    /\ startArgs = <<>>
    /\ booted = [c \in CoreIds |-> <<>>]
    /\ nStart = 0
InitArch == archCpu = ArchCpu_new(0) /\ InitIpi
AnyArch == archCpu \in PriorBlocks /\ InitIpi

NextArch == ArchInit \/ CpuStart \/ CpuStartMail \/ CpuStartAction \/ CoreBoots

(***************************************************************************)
(*                           Specifications                                *)
(***************************************************************************)

Init == InitGic /\ InitCpuIf /\ InitVirtio /\ InitPci /\ InitArch
Next == NextGic \/ NextCpuIf \/ NextVirtio \/ NextPci \/ NextArch
Spec == Init /\ [][Next]_vars

\* Each subsystem on its own, the others at rest.
SpecGic == Init /\ [][NextGic]_vars
SpecGicBoot == Init /\ [][NextCpuIf \/ NextGic]_vars
InitAnyCpuIf == InitGic /\ AnyCpuIf /\ InitVirtio /\ InitPci /\ InitArch
SpecCpuIf == InitAnyCpuIf /\ [][NextCpuIf]_vars
SpecVirtio == Init /\ [][NextVirtio]_vars
\* Every CPU keeps executing: a handler that can take its next step takes it,
\* and a pending SGI is taken by the CPU it is pending on.
FairVirtio ==
    /\ WF_vars(NonRootSendEvent) /\ WF_vars(NonRootInject)
    /\ WF_vars(RootEntry) /\ WF_vars(RootPop) /\ WF_vars(RootWrite)
    /\ WF_vars(RootSendSgi) /\ WF_vars(RootExit)
SpecVirtioFair == Init /\ [][NextVirtioWrites]_vars /\ FairVirtio
SpecPci == Init /\ [][NextPci]_vars
InitAnyArch == InitGic /\ InitCpuIf /\ InitVirtio /\ InitPci /\ AnyArch
SpecArch == InitAnyArch /\ [][NextArch]_vars
InitAnyPci == InitGic /\ InitCpuIf /\ InitVirtio /\ AnyPci /\ InitArch
SpecPciInit == InitAnyPci /\ [][PciInit]_vars

(***************************************************************************)
(*                              Properties                                 *)
(***************************************************************************)

\* Interrupt ids gicv3_handle_irq_el1 can acknowledge (IAR below 0x3fe).
IrqIds == {v \in IarValues : v < 1022}

\* Virtual id v is held by an occupied list register.
present(lrs, v) == \E i \in DOMAIN lrs : lrs[i].state # 0 /\ lrs[i].virt = v

Min(S) == CHOOSE x \in S : \A y \in S : x <= y

\* C1: IRQ conservation. Every acknowledged interrupt id, the hypervisor SGI
\* included, has received exactly one EOIR1 write per acknowledgement; every
\* id below 16 exactly one DIR write per acknowledgement; ids 16 and above no
\* DIR write.
C1_IrqConservation ==
    \A v \in IarValues :
        /\ eoir[v] = ack[v]
        /\ dir[v] = IF v < 16 THEN ack[v] ELSE 0

\* C2: LR injection idempotence. In every list-register pool in which an
\* occupied slot already carries virtual id v, inject_irq(v) writes no list
\* register: the pool is unchanged, whether or not a free slot exists.
C2_InjectionIdempotent ==
    \A v \in IrqIds : present(lr, v) => inject_irq(lr, v) = lr

\* C9: Spurious interrupt. Whenever the handler reads a value of 0x3fe or more
\* from ICC_IAR1_EL1, pending_irq is None and the handler returns without
\* acknowledging an id and without writing EOIR1, DIR or a list register.
C9_SpuriousNoWrites ==
    [][\A v \in IarValues :
           (v >= 1022 /\ gicv3_handle_irq_el1(v))
               => (pending_irq(v) = <<>> /\ UNCHANGED <<lr, eoir, dir, ack, hung>>)]_vars

\* C9 witness: the handler has run on the spurious id 0x3fe.
C9_Witness == iar = <<1022>> /\ nIrq > 0

\* C10: LR slot choice and encoding. With a free list register and v not
\* already present, inject_irq writes exactly the list register at the lowest
\* set ELRSR bit, with bits[9:0] = v, group 1, state pending and, for a
\* hardware-backed interrupt (a PPI or SPI), the HW bit and bits[41:32] = v;
\* every other list register is unchanged.
C10_SlotChoiceEncoding ==
    \A v \in IrqIds :
        (elrsr(lr) # {} /\ ~present(lr, v)) =>
            LET new == inject_irq(lr, v)
                k == Min(elrsr(lr))
            IN  /\ new[k].virt = v
                /\ new[k].grp = 1
                /\ new[k].state = 1
                /\ v >= 16 => (new[k].hw = 1 /\ new[k].phys = v)
                /\ \A i \in DOMAIN lr : i # k => new[i] = lr[i]

\* C11: SGIs are never HW-linked. Every occupied list register that carries a
\* virtual id below 16 has the HW bit (bit 61) clear and a zero physical id
\* field (bits[41:32]).
C11_SgiNotHwLinked ==
    \A i \in DOMAIN lr :
        (lr[i].state # 0 /\ lr[i].virt < 16) => (lr[i].hw = 0 /\ lr[i].phys = 0)

\* C12: SGI routing. When the acknowledged id is SGI_HV_ID the handler hands
\* the interrupt to the hypercall handler (it does not stay in
\* gicv3_handle_irq_el1) and the id is in no list register; every other
\* acknowledged id below 16 gets its EOIR1 and DIR write and is injected: it
\* is in a list register afterwards whenever it was there before or a list
\* register was free.
C12_SgiRouting ==
    [][\A v \in IarValues :
           (v < 16 /\ gicv3_handle_irq_el1(v)) =>
               IF v = SGI_HV_ID
               THEN ~hung' /\ ~present(lr', v)
               ELSE /\ eoir'[v] = eoir[v] + 1
                    /\ dir'[v] = dir[v] + 1
                    /\ (present(lr, v) \/ elrsr(lr) # {}) => present(lr', v)]_vars

\* C13: IRQ whitelist. A PPI or SPI (id 16 or above) is held by a list
\* register only if it belongs to the zone's IRQ set; an id outside the set is
\* in no list register.
C13_IrqWhitelist ==
    \A i \in DOMAIN lr :
        (lr[i].state # 0 /\ lr[i].virt >= 16) => lr[i].virt \in ROOT_ZONE_IRQS

\* C19: gicv3_cpu_init is idempotent. A run of gicv3_cpu_init on a CPU on
\* which it has run before leaves ICC_CTLR_EL1, ICC_PMR_EL1 (0xF0),
\* ICC_IGRPEN1_EL1, ICH_VMCR_EL2 and ICH_HCR_EL2 as the earlier run left them,
\* whatever the registers held before the first run.
C19_CpuInitIdempotent ==
    [][(nInit >= 1 /\ gicv3_cpu_init) =>
           /\ icc_pmr_el1' = 240
           /\ UNCHANGED <<icc_ctlr_el1, icc_pmr_el1, icc_igrpen1_el1, ich_vmcr_el2,
                          ich_hcr_el2>>]_vars

\* C20: the interrupt handler never blocks. No invocation of
\* gicv3_handle_irq_el1 leaves the CPU inside the handler: it returns to the
\* guest for every IAR value and every list-register pool.
C20_HandlerReturns == hung = FALSE

\* C22: Dropped injections are recovered. Whenever the handler has returned,
\* every PPI or SPI that is not held by a list register can be signalled and
\* acknowledged again: it is not left active at the CPU interface by the
\* handler's ICC_EOIR1_EL1 write, so a line that stays asserted is acknowledged
\* again and injected once a list register is free.
C22_DroppedInjectionRecovered ==
    \A v \in IrqIds : (v >= 16 /\ v \in active) => present(lr, v)

\* C3: Result map discipline. The root writes VIRTIO_RESULT_MAP[c] only while
\* CPU c is suspended, and when CPU c consumes its result (after waking, or in
\* handle_virtio_result) the entry is cleared: none remains for c.
C3_ResultMapDiscipline ==
    [][\A c \in NonRootCpus :
           /\ ((\E v \in CfgResults \cup VirqResults : RootWriteResult(v))
                  /\ rootCur[1].src_cpu = c) => suspended[c]
           /\ ((VirtioTakeResult(c) /\ takes_result(mmio[c].is_write))
                  \/ handle_virtio_result(c)) => resultMap'[c] = <<>>]_vars

\* C4: Virtio RPC precedence. A CPU that is past suspend_self for a cfg
\* request (or returning from the handler for one) has had, since it pushed
\* the request, a result-map write for it and a resume SGI sent to it.
C4_WakeAfterResult ==
    \A c \in NonRootCpus :
        (isCfg[c] /\ pc[c] \in {"woke", "ret", "panic"})
            => (hist[c].wrote # <<>> /\ hist[c].resumed)

\* C4 witness: a CPU has woken from suspend_self for a cfg request.
C4_Witness == \E c \in NonRootCpus : isCfg[c] /\ pc[c] = "woke"

\* C8: Cfg read result. When the handler returns from a cfg read, mmio.value
\* is the value the root wrote into VIRTIO_RESULT_MAP for that request; when
\* it returns from a cfg write, mmio.value is the value the guest supplied.
C8_CfgReadResult ==
    \A c \in NonRootCpus :
        (isCfg[c] /\ pc[c] = "ret") =>
            IF access[c].is_write
            THEN mmio[c].value = access[c].value
            ELSE hist[c].wrote = <<mmio[c].value>>

\* C8 witness: a CPU returns from a cfg read with the root's result, after an
\* earlier notify of its own was answered, while another CPU has a request
\* outstanding.
C8_Witness ==
    \E c \in NonRootCpus, d \in NonRootCpus :
        /\ c # d
        /\ isCfg[c] /\ pc[c] = "ret" /\ ~access[c].is_write
        /\ sgiResult[c]
        /\ mmio[c].value \in CfgResults
        /\ pc[d] # "guest"

\* The requests that are queued or in service at the root.
outstanding == reqList \o rootCur

\* C16: Request ordering. TRAMPOLINE_REQ_LIST changes only by a push at its
\* tail or by the removal of its head, which the root then services, so
\* requests leave in push order across all CPUs; and the requests queued or in
\* service hold at most one cfg request per source CPU.
C16_RequestOrdering ==
    [][/\ reqList' # reqList =>
              \/ /\ Len(reqList') = Len(reqList) + 1
                 /\ SubSeq(reqList', 1, Len(reqList)) = reqList
              \/ /\ reqList # <<>>
                 /\ reqList' = Tail(reqList)
                 /\ rootCur' = <<Head(reqList)>>
       /\ \A c \in NonRootCpus :
              Cardinality({i \in DOMAIN outstanding' :
                              outstanding'[i].src_cpu = c /\ outstanding'[i].is_cfg}) <= 1]_vars

\* C16 witness: the root services the request CPU 4 pushed first while the
\* one CPU 5 pushed after it is still queued.
C16_Witness ==
    /\ rootCur # <<>>
    /\ rootCur[1].src_cpu = 4
    /\ reqList # <<>>
    /\ reqList[1].src_cpu = 5

\* C17: Request classification. For every device-relative offset a and base b
\* the handler queues, at the tail, a VirtioReq with is_cfg false exactly when
\* a is 0x50 (whatever a + b is), the caller's zone and CPU id, and the access
\* with address a + b and size, is_write and value as the guest gave them.
C17_RequestClassification ==
    [][\A c \in NonRootCpus, a \in GuestAccesses, b \in VirtioBases :
           VirtioPush(c, a, b) =>
               reqList' = Append(reqList,
                                 [src_cell |-> this_cell_id(c),
                                  src_cpu |-> c,
                                  is_cfg |-> (a.address # 80),
                                  mmio |-> [address |-> a.address + b,
                                            size |-> a.size,
                                            is_write |-> a.is_write,
                                            value |-> a.value]])]_vars

\* C17 witness: a notify write at offset 0x50, rebased to 0x1050, is queued as
\* a non-cfg request.
C17_Witness ==
    \E i \in DOMAIN reqList :
        /\ ~reqList[i].is_cfg
        /\ reqList[i].mmio.address = 4096 + 80
        /\ reqList[i].mmio.is_write
        /\ reqList[i].mmio.value = 5

\* C18: Suspend exactly on cfg. A handler is at or past suspend_self only for
\* a cfg request; a handler that returns from a notify request has not been
\* suspended or resumed and its mmio.value is the guest's; a handler that
\* returns from a cfg request has been through suspend_self and resumed.
C18_SuspendExactlyOnCfg ==
    \A c \in NonRootCpus :
        /\ pc[c] \in {"suspend", "suspended", "woke"} => access[c].address # 80
        /\ (pc[c] = "ret" /\ access[c].address = 80) =>
               /\ mmio[c].value = access[c].value
               /\ ~suspended[c]
               /\ ~hist[c].resumed
        /\ (pc[c] = "ret" /\ access[c].address # 80) => hist[c].resumed

\* C18 witness: one CPU returns from a notify request while the other is
\* suspended on a cfg request.
C18_Witness ==
    \E c, d \in NonRootCpus :
        /\ pc[c] = "ret" /\ access[c].address = 80
        /\ pc[d] = "suspended" /\ access[d].address # 80

\* C23: Notify completion under interleaving. Every id handle_virtio_result
\* has injected on a CPU is a virtual interrupt id the root stored for a
\* notify request of that CPU, whatever else the CPU requested in between.
C23_NotifyCompletion ==
    \A c \in NonRootCpus :
        \A i \in DOMAIN injected[c] : injected[c][i] \in VirqResults

C25_LockDiscipline ==
    \A c \in NonRootCpus :
        mapLock = <<c>> => pc[c] \notin {"pushed", "suspend", "suspended", "inject"}

C5_DeviceIsolation ==
    (inited = Zones) =>
        \A z1 \in Zones, z2 \in Zones, b \in Bdfs :
            (z1 # z2 /\ is_assigned_device(alloc_devs[z1], b))
                => ~is_assigned_device(alloc_devs[z2], b)

\* C14: MMIO and stage-2 regions are disjoint. After pci_init of a zone no
\* guest-physical address lies both in a region registered with
\* mmio_region_register and in a region inserted into the zone's gpm.
C14_TrapAndMapDisjoint ==
    \A z \in inited :
        \A r \in gpm[z], m \in mmioRegions[z] : ~overlaps(r, m)

\* A power of two.
IsPowerOfTwo(n) == \E k \in 0 .. 30 : n = 2 ^ k

\* C15: BAR rounding. Every region in a zone's bar_regions has a size of at
\* least 0x1000 that is a power of two, and a start aligned to that size.
C15_BarRounding ==
    \A z \in Zones :
        \A i \in DOMAIN bar_regions[z] :
            LET r == bar_regions[z][i]
            IN  /\ r.size >= 4096
                /\ IsPowerOfTwo(r.size)
                /\ r.start % r.size = 0

\* C6: Phantom header. A guest read at config offset 0 of a BDF that is not
\* assigned to the zone returns 0xFFFFFFFF exactly when the physical header
\* reads 0xFFFFFFFF and PHANTOM_DEV_HEADER otherwise, never the physical
\* vendor/device word of an occupied slot. (pciReq and pciRes are the last
\* access and its outcome; the vendor/device word and a zone's alloc_devs do
\* not change once the zone runs.)
C6_PhantomHeader ==
    pciReq # <<>> =>
        LET m == pciReq[1].mmio
            bdf == m.address \div 4096
            h == ecam[bdf].regs[0]
        IN  (/\ ~m.is_write
             /\ m.address % 4096 = 0
             /\ ~is_assigned_device(alloc_devs[pciReq[1].zone], bdf))
            => /\ (pciRes[1].value = AllOnes) <=> (h = AllOnes)
               /\ h # AllOnes => (pciRes[1].value = PHANTOM_DEV_HEADER
                                  /\ pciRes[1].value # h)

\* C6 witness: a zone has read offset 0 of the populated endpoint 1<<3, which
\* is not assigned to it, and got the phantom header.
C6_Witness ==
    /\ pciReq # <<>>
    /\ pciReq[1].mmio.address = 8 * 4096
    /\ ~pciReq[1].mmio.is_write
    /\ ~is_assigned_device(alloc_devs[pciReq[1].zone], 8)
    /\ ecam[8].regs[0] # AllOnes
    /\ pciRes[1].value = PHANTOM_DEV_HEADER

\* C7: Writes to unassigned devices are ignored. A guest write to a BDF that
\* is not assigned to the zone, at any config offset, leaves the physical
\* configuration space of that BDF unchanged, and the handler returns Ok.
C7_UnassignedWritesIgnored ==
    [][\A z \in Zones, m \in EcamAccesses :
           LET bdf == m.address \div 4096
           IN  (/\ mmio_pci_handler(z, m)
                /\ m.is_write
                /\ ~is_assigned_device(alloc_devs[z], bdf))
               => (ecam'[bdf] = ecam[bdf] /\ pciRes'[1].ret = "Ok")]_vars

\* The BAR slots the sizing pass visits for endpoints eps and bridges brs, in
\* order: six per endpoint, then two per bridge.
sizing_slots(eps, brs) ==
    [k \in 1 .. 6 * Len(eps) |->
        [bdf |-> eps[((k - 1) \div 6) + 1], reg |-> 16 + 4 * ((k - 1) % 6)]]
    \o
    [k \in 1 .. 2 * Len(brs) |->
        [bdf |-> brs[((k - 1) \div 2) + 1], reg |-> 16 + 4 * ((k - 1) % 2)]]

\* C26: BAR sizing is non-destructive. The pass run by pci_init of a non-root
\* zone makes, for each of the six slots 0x10..0x24 of every endpoint and then
\* the two slots 0x10, 0x14 of every bridge, exactly the accesses read, write
\* 0xFFFFFFFF, read, write of the value first read, in this order, and when
\* it completes every configuration register holds the value it had before.
C26_SizingNonDestructive ==
    [][\A z \in Zones \ {0}, devs \in DevLists :
           pci_init(z, devs) =>
               LET slots == sizing_slots(endpoints'[z], bridges'[z])
                   acc == bars_register(ecam, endpoints'[z], bridges'[z]).accesses
               IN  /\ ecam' = ecam
                   /\ Len(acc) = 4 * Len(slots)
                   /\ \A k \in DOMAIN slots :
                          LET b == slots[k].bdf
                              r == slots[k].reg
                          IN  /\ acc[4 * k - 3] = CfgRead(b, r)
                              /\ acc[4 * k - 2] = CfgWrite(b, r, AllOnes)
                              /\ acc[4 * k - 1] = CfgRead(b, r)
                              /\ acc[4 * k] = CfgWrite(b, r, ecam[b].regs[r])]_vars

\* C26 witness: pci_init has sized the endpoint 1<<3 for zone 1 (BAR0 of 256
\* bytes and BAR1 of 4 KiB found) and the BARs hold their boot values.
C26_Witness ==
    /\ 1 \in inited
    /\ endpoints[1] = <<8>>
    /\ Len(bar_regions[1]) = 2
    /\ ecam[8].regs[16] = <<4096, 256>>
    /\ ecam[8].regs[20] = <<4096, 8192>>

\* C21: PerCpu init. After init(entry, cpu_id, dtb) on a CPU block in any
\* prior state the block's entry (sepc) is the entry argument, its stack top
\* is the stack top of the CPU, every general-purpose register of the save
\* area is zero and power_on is false.
C21_PerCpuInit ==
    initArgs # <<>> =>
        /\ archCpu.sepc = initArgs[1].entry
        /\ archCpu.stack_top = stack_top(archCpu)
        /\ \A i \in GprIds : archCpu.r[i] = 0
        /\ archCpu.power_on = FALSE

\* C27: Secondary CPU bring-up. While the boot action is raised for a core,
\* the core is one of 1..3, all its IPI sources are enabled and its mailbox
\* holds an entry address; a core that booted took an entry address from its
\* mailbox; and for every other core id (0, 4) no IPI-enable write, no mailbox
\* write and no boot action has happened.
C27_CpuBringUp ==
    \A c \in CoreIds :
        /\ SMP_BOOT_CPU \in ipi_action[c] =>
               (c \in {1, 2, 3} /\ ipi_enable[c] = AllOnes /\ mailbox[c] \in StartAddrs)
        /\ booted[c] # <<>> => booted[c][1] \in StartAddrs
        /\ c \notin {1, 2, 3} =>
               (ipi_enable[c] = <<0, 0>> /\ mailbox[c] = 0 /\ ipi_action[c] = {})

\* C27 witness: core 2 has booted from the entry address 0x9000 after
\* cpu_start(2, 0x9000), and a cpu_start on core 4 has returned.
C27_Witness ==
    /\ booted[2] = <<36864>>
    /\ startArgs # <<>>
    /\ startArgs[1].cpuid = 4
    /\ startPc = "idle"
====
